---- MODULE Spec2Model ----
(***************************************************************************)
(* continuum/tasks/utils.py: get_balanced_sampler, split_train_val and     *)
(* concat, as a state machine whose steps are calls of the three functions *)
(* on task sets drawn from bounded sets.  The state records the last call, *)
(* what it returned or raised, and the locals the properties speak about.  *)
(***************************************************************************)
EXTENDS Integers, Sequences, FiniteSets, TLC

VARIABLES
    call,          \* the last call: function name and arguments
    ret,           \* what the last call returned or raised, with its locals
    labels_read,   \* whether the last call read the labels of its task set
    np_random,     \* numpy's module-level generator, shared by all calls
    pinned,        \* an earlier split_train_val call, kept for comparison
    between        \* whether another call ran since the pinned one

vars == <<call, ret, labels_read, np_random, pinned, between>>

(***************************************************************************)
(* Bounds of the model.                                                    *)
(***************************************************************************)
MaxSamplerLen == 5   \* longest label sequence given to get_balanced_sampler
MaxLabel == 2        \* largest class label
MaxSplitLen == 4     \* longest task set given to split_train_val
MaxNum == 6          \* val_split numerators range over -MaxNum..MaxNum
MaxDen == 4          \* val_split denominators range over 1..MaxDen
MaxSets == 3         \* longest list given to concat
MaxConcatLen == 2    \* longest task set in a list given to concat

(***************************************************************************)
(* Floating-point values.  A finite float is an exact fraction num/den;    *)
(* the values numpy produces outside the fractions are kept symbolic:      *)
(*   inf, -inf, nan                                                        *)
(*   ln        : ln(num/den)                                               *)
(*   lnratio   : ln(num)/ln(den), 1 <= num <= den, 1 < den                 *)
(*   one_minus : 1 - ln(num)/ln(den), 1 <= num <= den, 1 < den             *)
(***************************************************************************)
Rat(n, d) == [kind |-> "rat", num |-> n, den |-> d]
Inf == [kind |-> "inf", num |-> 0, den |-> 1]
NegInf == [kind |-> "-inf", num |-> 0, den |-> 1]
NaN == [kind |-> "nan", num |-> 0, den |-> 1]

RECURSIVE Pow(_, _)
Pow(b, e) == IF e = 0 THEN 1 ELSE b * Pow(b, e - 1)

Sign(n) == IF n > 0 THEN 1 ELSE IF n < 0 THEN -1 ELSE 0

\* The sign of ln(a)/ln(P) - p/q, for 1 <= a <= P, 1 < P and 0 < q:
\* inside [0, 1] it is the sign of a^q - P^p.
LnRatioCmpRat(a, P, p, q) ==
    IF p < 0 THEN 1
    ELSE IF p > q THEN -1
    ELSE Sign(Pow(a, q) - Pow(P, p))

\* The sign of u - v as real numbers, for values other than nan.  The
\* symbolic values of one call share their denominator ln(P).
FloatCmp(u, v) ==
    CASE u.kind = "rat" /\ v.kind = "rat" ->
            Sign(u.num * v.den - v.num * u.den)
      [] u.kind = "lnratio" /\ v.kind = "lnratio" /\ u.den = v.den ->
            Sign(u.num - v.num)
      [] u.kind = "one_minus" /\ v.kind = "one_minus" /\ u.den = v.den ->
            Sign(v.num - u.num)
      [] u.kind = "lnratio" /\ v.kind = "rat" ->
            LnRatioCmpRat(u.num, u.den, v.num, v.den)
      [] u.kind = "rat" /\ v.kind = "lnratio" ->
            -LnRatioCmpRat(v.num, v.den, u.num, u.den)
      [] u.kind = "one_minus" /\ v.kind = "rat" ->
            -LnRatioCmpRat(u.num, u.den, v.den - v.num, v.den)
      [] u.kind = "rat" /\ v.kind = "one_minus" ->
            LnRatioCmpRat(v.num, v.den, u.den - u.num, u.den)
      [] u.kind = v.kind /\ u.kind \in {"inf", "-inf"} -> 0
      [] u.kind = "inf" /\ v.kind # "inf" -> 1
      [] u.kind = "-inf" /\ v.kind # "-inf" -> -1
      [] v.kind = "inf" /\ u.kind # "inf" -> -1
      [] v.kind = "-inf" /\ u.kind # "-inf" -> 1

IsNaN(u) == u.kind = "nan"

\* ==, < and >= of floats: every comparison with nan is false.
FloatEq(u, v) == ~IsNaN(u) /\ ~IsNaN(v) /\ FloatCmp(u, v) = 0
FloatLt(u, v) == ~IsNaN(u) /\ ~IsNaN(v) /\ FloatCmp(u, v) = -1
FloatGeq(u, v) == ~IsNaN(u) /\ ~IsNaN(v) /\ FloatCmp(u, v) >= 0

(***************************************************************************)
(* Task sets.                                                              *)
(***************************************************************************)
TaskTypes == {"IMAGE_ARRAY", "SEGMENTATION", "OBJ_DETECTION", "TEXT"}
Trsfs == {"trsf_a", "trsf_b"}

TaskSet(x, y, t, trsf, data_type) ==
    [x |-> x, y |-> y, t |-> t, trsf |-> trsf, data_type |-> data_type]

\* get_raw_samples(indexes): the three sequences filtered by 0-based indexes.
GetRawSamples(taskset, indexes) ==
    [x |-> [i \in 1..Len(indexes) |-> taskset.x[indexes[i] + 1]],
     y |-> [i \in 1..Len(indexes) |-> taskset.y[indexes[i] + 1]],
     t |-> [i \in 1..Len(indexes) |-> taskset.t[indexes[i] + 1]]]

\* get_raw_samples(): the three sequences wholesale.
GetAllRawSamples(taskset) == [x |-> taskset.x, y |-> taskset.y, t |-> taskset.t]

NoCall == [fn |-> "none"]

\* The calls made after the pinned one, the last two of them at most.
Noted(fn) ==
    IF pinned = NoCall THEN between
    ELSE IF Len(between) < 2 THEN Append(between, fn)
    ELSE <<between[2], fn>>

SeqsUpTo(S, n) == UNION {[1..k -> S] : k \in 0..n}

\* The features of a task set of n samples made for the model: sample i of
\* task set `id` is the token <<id, i>>, so a sample's origin can be read.
Features(id, n) == [i \in 1..n |-> <<id, i>>]

(***************************************************************************)
(* get_balanced_sampler                                                    *)
(***************************************************************************)
Labels == 0..MaxLabel

SeqMax(s) == CHOOSE m \in {s[i] : i \in DOMAIN s} :
                \A i \in DOMAIN s : s[i] <= m

\* np.bincount(y): entry c+1 counts the occurrences of label c, for every
\* c from 0 to max(y); the empty array for an empty y.
BinCount(y) ==
    IF Len(y) = 0 THEN <<>>
    ELSE [c \in 1..(SeqMax(y) + 1) |->
            Cardinality({i \in DOMAIN y : y[i] = c - 1})]

\* A faulty variant of Recip: the count itself.
NotInverted(n) == Rat(n, 1)

\* 1 / n on a numpy integer array: 1 / 0 is inf (with a RuntimeWarning).
Recip(n) == IF n = 0 THEN Inf ELSE Rat(1, n)

\* np.log of a weight 1/n, or of inf.
NpLog(w) == IF w.kind = "inf" THEN Inf
            ELSE [kind |-> "ln", num |-> w.num, den |-> w.den]

RECURSIVE ProdDen(_)
ProdDen(ls) == IF Len(ls) = 0 THEN 1 ELSE Head(ls).den * ProdDen(Tail(ls))

\* np.sum of the log weights ln(1/n): inf when one of them is inf, else the
\* log of the product, ln(1/P); 0.0 = ln(1/1) for the empty array.
NpSum(ls) ==
    IF \E c \in DOMAIN ls : ls[c].kind = "inf" THEN Inf
    ELSE [kind |-> "ln", num |-> 1, den |-> ProdDen(ls)]

\* l / s for a log weight l = ln(1/a) and the sum s.
NpDiv(l, s) ==
    CASE s.kind = "inf" /\ l.kind = "inf" -> NaN           \* inf / inf
      [] s.kind = "inf" /\ l.kind # "inf" -> Rat(0, 1)     \* finite / inf
      [] s.kind # "inf" /\ s.den = 1 /\ l.den = 1 -> NaN   \* 0 / 0
      [] s.kind # "inf" /\ s.den = 1 /\ l.den # 1 -> NegInf
      [] OTHER -> [kind |-> "lnratio", num |-> l.den, den |-> s.den]

\* A faulty variant of OneMinus: r itself.
NotSubtracted(r) == r

\* 1 - r
OneMinus(r) ==
    CASE r.kind = "nan" -> NaN
      [] r.kind = "inf" -> NegInf
      [] r.kind = "-inf" -> Inf
      [] r.kind = "rat" -> Rat(r.den - r.num, r.den)
      [] r.kind = "lnratio" ->
            [kind |-> "one_minus", num |-> r.num, den |-> r.den]

InverseWeights(nb_per_class) ==
    [c \in DOMAIN nb_per_class |-> Recip(nb_per_class[c])]

LogWeights(weights_per_class) ==
    LET logs == [c \in DOMAIN weights_per_class |->
                    NpLog(weights_per_class[c])]
        total == NpSum(logs)
    IN  [c \in DOMAIN logs |-> OneMinus(NpDiv(logs[c], total))]

WeightsPerClass(nb_per_class, log) ==
    IF log THEN LogWeights(InverseWeights(nb_per_class))
    ELSE InverseWeights(nb_per_class)

\* weights_per_class[y]: each sample's weight, looked up by its label.
LookUp(weights_per_class, y) ==
    [i \in DOMAIN y |-> weights_per_class[y[i] + 1]]

UnsupportedTypes == {"SEGMENTATION", "OBJ_DETECTION", "TEXT"}

\* torch's WeightedRandomSampler(weights, num_samples) refuses
\* num_samples <= 0.
WeightedRandomSampler(weights, num_samples, nb_per_class) ==
    IF num_samples <= 0
    THEN [kind |-> "raise", error |-> "ValueError",
          nb_per_class |-> nb_per_class]
    ELSE [kind |-> "ok", weights |-> weights, num_samples |-> num_samples,
          nb_per_class |-> nb_per_class]

\* A faulty variant of Unsupported: TEXT left out of the tuple.
UnsupportedButText(data_type) ==
    data_type \in {"SEGMENTATION", "OBJ_DETECTION"}

\* Whether the data-type check sends the call to the raise.
Unsupported(data_type) == data_type \in UnsupportedTypes

\* The result of get_balanced_sampler(taskset, log) and whether it read the
\* labels on the way.
BalancedSampler(taskset, log) ==
    IF Unsupported(taskset.data_type)
    THEN [result |-> [kind |-> "raise", error |-> "NotImplementedError",
                      data_type |-> taskset.data_type],
          read |-> FALSE]
    ELSE LET y == GetAllRawSamples(taskset).y
             nb_per_class == BinCount(y)
             weights_per_class == WeightsPerClass(nb_per_class, log)
             weights == LookUp(weights_per_class, y)
         IN  [result |-> WeightedRandomSampler(weights, Len(taskset.x),
                                               nb_per_class),
              read |-> TRUE]

SamplerTaskSet(y, dt) ==
    TaskSet(Features(0, Len(y)), y, [i \in 1..Len(y) |-> 0], "trsf_a", dt)

GetBalancedSamplerOver(maxLen) ==
    /\ call = NoCall
    /\ \E y \in SeqsUpTo(Labels, maxLen), dt \in TaskTypes, log \in BOOLEAN :
        LET taskset == SamplerTaskSet(y, dt)
            r == BalancedSampler(taskset, log)
        IN  /\ call' = [fn |-> "get_balanced_sampler", taskset |-> taskset,
                        log |-> log]
            /\ ret' = r.result
            /\ labels_read' = r.read
            /\ between' = Noted("get_balanced_sampler")
            /\ UNCHANGED <<np_random, pinned>>

GetBalancedSampler == GetBalancedSamplerOver(MaxSamplerLen)


(***************************************************************************)
(* split_train_val                                                         *)
(***************************************************************************)
Seed == 1

\* The low 8 bits of the successive 32-bit outputs of MT19937 seeded with
\* 1 (init_genrand), which is what np.random.RandomState(seed=1) draws
\* from.  The shuffle masks each output with a mask below 2^8.
Mt19937Seed1 ==
    <<37, 235, 140, 72, 255, 137, 203, 133, 79, 192, 144, 129, 204, 71, 237,
      252, 134, 25, 178, 20, 254, 101, 146, 212, 139, 252, 234, 156, 157,
      142, 50, 68, 215, 215, 233, 241, 247, 222, 96, 86, 141, 233, 137, 7,
      63, 61, 22, 57>>

\* np.random.RandomState(seed): a generator of its own that has drawn
\* nothing yet.
RandomState(seed) == [seed |-> seed, pos |-> 0, shared |-> FALSE]

\* A faulty variant of LocalRandomState: the module-level generator, which
\* np.random.shuffle would use.
ModuleRandomState == np_random

\* The generator a call of split_train_val shuffles with: a new one, seeded
\* with 1.
LocalRandomState == RandomState(Seed)

NextUint32(state) ==
    [value |-> Mt19937Seed1[state.pos + 1],
     state |-> [state EXCEPT !.pos = @ + 1]]

\* The smallest 2^k - 1 that is >= max.
RECURSIVE MaskFrom(_, _)
MaskFrom(max, mask) == IF mask >= max THEN mask
                       ELSE MaskFrom(max, 2 * mask + 1)

\* A uniform draw from 0..max: masked outputs, rejected while above max.
RECURSIVE RejectionDraw(_, _, _)
RejectionDraw(state, max, mask) ==
    LET r == NextUint32(state)
        v == r.value % (mask + 1)
    IN  IF v <= max THEN [value |-> v, state |-> r.state]
        ELSE RejectionDraw(r.state, max, mask)

RandomInterval(state, max) ==
    IF max = 0 THEN [value |-> 0, state |-> state]
    ELSE RejectionDraw(state, max, MaskFrom(max, 1))

\* RandomState.shuffle(x): for i = n-1 down to 1, swap x[i] and x[j] with j
\* drawn from 0..i (positions are 0-based in the code, 1-based here).
RECURSIVE ShuffleFrom(_, _, _)
ShuffleFrom(state, x, i) ==
    IF i < 1 THEN [x |-> x, state |-> state]
    ELSE LET r == RandomInterval(state, i)
             j == r.value
         IN  ShuffleFrom(r.state,
                         [x EXCEPT ![i + 1] = x[j + 1], ![j + 1] = x[i + 1]],
                         i - 1)

Shuffle(state, x) == ShuffleFrom(state, x, Len(x) - 1)

\* np.arange(n)
Arange(n) == [i \in 1..n |-> i - 1]

\* val_split * len(indexes)
FloatMulInt(v, n) ==
    CASE v.kind = "rat" -> Rat(v.num * n, v.den)
      [] v.kind = "nan" -> NaN
      [] OTHER -> IF n = 0 THEN NaN ELSE v          \* inf * 0 is nan

\* A faulty variant of Trunc: the quotient rounded down.
FloorDiv(p, q) == p \div q

\* Integer quotient rounded towards zero.
Trunc(p, q) == IF p >= 0 THEN p \div q ELSE -((-p) \div q)

\* int(f): truncation towards zero; raises on inf and nan.
PyInt(f) ==
    CASE f.kind = "rat" -> [kind |-> "ok", value |-> Trunc(f.num, f.den)]
      [] f.kind = "nan" -> [kind |-> "raise", error |-> "ValueError"]
      [] OTHER -> [kind |-> "raise", error |-> "OverflowError"]

\* The position a slice bound k stands for in a sequence of n elements:
\* a negative k counts from the end, and the result is clamped to 0..n.
SliceBound(k, n) ==
    LET b == IF k < 0 THEN n + k ELSE k
    IN  IF b < 0 THEN 0 ELSE IF b > n THEN n ELSE b

\* A faulty variant of SliceFrom: s[k+1:].
SliceFromOffByOne(s, k) == SubSeq(s, SliceBound(k, Len(s)) + 2, Len(s))

\* s[k:] and s[:k]
SliceFrom(s, k) == SubSeq(s, SliceBound(k, Len(s)) + 1, Len(s))
SliceTo(s, k) == SubSeq(s, 1, SliceBound(k, Len(s)))

\* The result of split_train_val(dataset, val_split) with the generator
\* `state`, and the generator as the shuffle leaves it.
SplitTrainValWith(state, dataset, val_split) ==
    LET shuffled == Shuffle(state, Arange(Len(dataset.x)))
        indexes == shuffled.x
        k == PyInt(FloatMulInt(val_split, Len(indexes)))
    IN  IF k.kind = "raise"
        THEN [result |-> [kind |-> "raise", error |-> k.error],
              state |-> shuffled.state, read |-> FALSE]
        ELSE LET train_indexes == SliceFrom(indexes, k.value)
                 val_indexes == SliceTo(indexes, k.value)
                 tr == GetRawSamples(dataset, train_indexes)
                 va == GetRawSamples(dataset, val_indexes)
             IN  [result |->
                    [kind |-> "ok",
                     indexes |-> indexes,
                     train_indexes |-> train_indexes,
                     val_indexes |-> val_indexes,
                     train |-> TaskSet(tr.x, tr.y, tr.t, dataset.trsf,
                                       dataset.data_type),
                     val |-> TaskSet(va.x, va.y, va.t, dataset.trsf,
                                     dataset.data_type)],
                  state |-> shuffled.state, read |-> TRUE]

SplitTaskSet(n, trsf, dt) ==
    TaskSet(Features(0, n), [i \in 1..n |-> i % (MaxLabel + 1)],
            [i \in 1..n |-> 0], trsf, dt)

SplitTaskSets ==
    {SplitTaskSet(n, trsf, dt) :
        n \in 0..MaxSplitLen, trsf \in Trsfs, dt \in TaskTypes}

ValSplits ==
    {Rat(p, q) : p \in (-MaxNum)..MaxNum, q \in 1..MaxDen}
        \cup {Inf, NegInf, NaN}

SplitTrainValOver(tasksets, valsplits, pins) ==
    /\ call = NoCall
    /\ \E dataset \in tasksets, val_split \in valsplits, pin \in pins :
        LET r == SplitTrainValWith(LocalRandomState, dataset, val_split)
            c == [fn |-> "split_train_val", dataset |-> dataset,
                  val_split |-> val_split]
        IN  /\ call' = c
            /\ ret' = r.result
            /\ labels_read' = r.read
            /\ np_random' = IF r.state.shared THEN r.state ELSE np_random
            /\ IF pin
               THEN /\ pinned' = [fn |-> "split_train_val", call |-> c,
                                  ret |-> r.result]
                    /\ between' = <<>>
               ELSE /\ pinned' = pinned
                    /\ between' = Noted("split_train_val")

SplitTrainVal == SplitTrainValOver(SplitTaskSets, ValSplits, {FALSE})

(***************************************************************************)
(* concat                                                                  *)
(***************************************************************************)
\* A faulty variant of Concatenate: the arrays in reverse list order.
RECURSIVE ConcatenateReversed(_)
ConcatenateReversed(arrays) ==
    IF Len(arrays) = 0 THEN <<>>
    ELSE ConcatenateReversed(Tail(arrays)) \o Head(arrays)

\* np.concatenate(arrays): the arrays laid end to end, in list order.
RECURSIVE Concatenate(_)
Concatenate(arrays) ==
    IF Len(arrays) = 0 THEN <<>>
    ELSE Head(arrays) \o Concatenate(Tail(arrays))

\* A faulty variant of FirstTrsf: the transformations of the last task set.
LastTrsf(task_sets) == task_sets[Len(task_sets)].trsf

\* The transformations of the result: those of the first task set.
FirstTrsf(task_sets) == task_sets[1].trsf

\* A faulty variant of TypeMismatch: no check at all.
MismatchIgnored(task_set, data_type) == FALSE

\* Whether a task set fails the data-type check of the loop.
TypeMismatch(task_set, data_type) == task_set.data_type # data_type

\* The loop of concat from list position i on, with the arrays gathered so
\* far: it raises at the first task set whose data type is not data_type.
RECURSIVE ConcatLoop(_, _, _, _, _, _)
ConcatLoop(task_sets, data_type, i, x, y, t) ==
    IF i > Len(task_sets)
    THEN [kind |-> "ok",
          dataset |-> TaskSet(Concatenate(x), Concatenate(y), Concatenate(t),
                              FirstTrsf(task_sets), data_type)]
    ELSE IF TypeMismatch(task_sets[i], data_type)
    THEN [kind |-> "raise", error |-> "Exception",
          message |-> <<"Invalid data type", task_sets[i].data_type, "!=",
                        data_type>>]
    ELSE ConcatLoop(task_sets, data_type, i + 1,
                    Append(x, task_sets[i].x), Append(y, task_sets[i].y),
                    Append(t, task_sets[i].t))

\* The result of concat(task_sets); task_sets[0] of an empty list raises.
ConcatResult(task_sets) ==
    IF Len(task_sets) = 0
    THEN [kind |-> "raise", error |-> "IndexError"]
    ELSE ConcatLoop(task_sets, task_sets[1].data_type, 1, <<>>, <<>>, <<>>)

\* The task set at list position k, with n samples: its features and task
\* ids name the position, so the origin of every sample can be read.
ConcatTaskSet(k, n, trsf, dt) ==
    TaskSet(Features(k, n), [i \in 1..n |-> (k + i) % (MaxLabel + 1)],
            [i \in 1..n |-> k], trsf, dt)

\* The data types the lists given to concat are drawn from.
ConcatTypes == {"IMAGE_ARRAY", "SEGMENTATION", "TEXT"}

\* The list of task sets of the given lengths and data types, the first
\* with the pipeline `first`, the later ones with the pipeline `later`.
TaskSetList(shape, first, later) ==
    [k \in DOMAIN shape |->
        ConcatTaskSet(k, shape[k][1], IF k = 1 THEN first ELSE later,
                      shape[k][2])]

ConcatOver(maxSets, maxLen, trsfs) ==
    /\ call = NoCall
    /\ \E m \in 0..maxSets, first \in trsfs, later \in trsfs :
        \E shape \in [1..m -> (0..maxLen) \X ConcatTypes] :
            LET task_sets == TaskSetList(shape, first, later)
            IN  /\ call' = [fn |-> "concat", task_sets |-> task_sets]
                /\ ret' = ConcatResult(task_sets)
                /\ labels_read' = (Len(task_sets) > 0)
                /\ between' = Noted("concat")
                /\ UNCHANGED <<np_random, pinned>>

Concat == ConcatOver(MaxSets, MaxConcatLen, Trsfs)

(***************************************************************************)
(* The calls, in any order.                                                *)
(***************************************************************************)
Init ==
    /\ call = NoCall
    /\ ret = NoCall
    /\ labels_read = FALSE
    /\ np_random = [seed |-> Seed, pos |-> 0, shared |-> TRUE]
    /\ pinned = NoCall
    /\ between = <<>>

\* The caller is single-threaded: it takes the result of a call and leaves
\* the call behind before it makes the next one.
Return ==
    /\ call # NoCall
    /\ call' = NoCall
    /\ ret' = NoCall
    /\ labels_read' = FALSE
    /\ UNCHANGED <<np_random, pinned, between>>

Next == GetBalancedSampler \/ SplitTrainVal \/ Concat \/ Return

Spec == Init /\ [][Next]_vars

(***************************************************************************)
(* Repeated calls: split_train_val calls may be pinned and compared with   *)
(* later ones, with calls of any of the three functions in between.  The   *)
(* inputs are drawn from smaller sets than in Spec.                        *)
(***************************************************************************)
RepeatTaskSets == {SplitTaskSet(n, "trsf_a", "IMAGE_ARRAY") : n \in 0..MaxSplitLen}
RepeatValSplits == {Rat(p, MaxDen) : p \in 0..MaxDen} \cup {NaN}

SplitTrainValRepeat ==
    SplitTrainValOver(RepeatTaskSets, RepeatValSplits, BOOLEAN)

NextRepeat ==
    \/ SplitTrainValRepeat
    \/ GetBalancedSamplerOver(1)
    \/ ConcatOver(1, 1, {"trsf_a"})
    \/ Return

SpecRepeat == Init /\ [][NextRepeat]_vars

(***************************************************************************)
(* Properties.                                                             *)
(***************************************************************************)
Range(s) == {s[i] : i \in DOMAIN s}

IsSplit == call.fn = "split_train_val"
IsConcat == call.fn = "concat"
IsSampler == call.fn = "get_balanced_sampler"

\* The train and validation indexes of the last split are disjoint and
\* together are 0..N-1, each index once.
Partition ==
    LET n == Len(call.dataset.x)
    IN  /\ Range(ret.train_indexes) \cap Range(ret.val_indexes) = {}
        /\ Range(ret.train_indexes) \cup Range(ret.val_indexes) = 0..(n - 1)
        /\ Len(ret.train_indexes) + Len(ret.val_indexes) = n
        /\ Len(ret.train.x) = Len(ret.train_indexes)
        /\ Len(ret.val.x) = Len(ret.val_indexes)

\* C1: for every dataset of length N and every val_split in [0, 1),
\* split_train_val returns train and validation index sets that are
\* disjoint and whose union is 0..N-1, and the validation set has exactly
\* floor(val_split * N) samples.
C1_SplitPartitions ==
    (IsSplit /\ call.val_split.kind = "rat"
        /\ 0 <= call.val_split.num
        /\ call.val_split.num < call.val_split.den) =>
        /\ ret.kind = "ok"
        /\ Partition
        /\ Len(ret.val_indexes) =
              (call.val_split.num * Len(call.dataset.x))
                  \div call.val_split.den
        /\ Len(ret.val.x) = Len(ret.val_indexes)

C1_Witness ==
    /\ IsSplit
    /\ call.val_split = Rat(1, 2)
    /\ Len(call.dataset.x) = MaxSplitLen
    /\ ret.kind = "ok"
    /\ Len(ret.val_indexes) > 0
    /\ Len(ret.train_indexes) > 0

RECURSIVE SumLens(_, _)
SumLens(task_sets, k) ==
    IF k = 0 THEN 0 ELSE Len(task_sets[k].x) + SumLens(task_sets, k - 1)

SameTypes(task_sets) ==
    \A k \in DOMAIN task_sets : task_sets[k].data_type = task_sets[1].data_type

\* C2: concat of a non-empty list of task sets of one data type returns a
\* task set whose length is the sum of the lengths and whose features,
\* labels and task ids are those of the inputs laid end to end, in list
\* order and in each input's own order, aligned at every position.
C2_ConcatLaysEndToEnd ==
    (IsConcat /\ Len(call.task_sets) > 0 /\ SameTypes(call.task_sets)) =>
        /\ ret.kind = "ok"
        /\ Len(ret.dataset.x) = SumLens(call.task_sets, Len(call.task_sets))
        /\ Len(ret.dataset.y) = Len(ret.dataset.x)
        /\ Len(ret.dataset.t) = Len(ret.dataset.x)
        /\ \A k \in DOMAIN call.task_sets :
            \A i \in DOMAIN call.task_sets[k].x :
                LET pos == SumLens(call.task_sets, k - 1) + i
                IN  /\ ret.dataset.x[pos] = call.task_sets[k].x[i]
                    /\ ret.dataset.y[pos] = call.task_sets[k].y[i]
                    /\ ret.dataset.t[pos] = call.task_sets[k].t[i]

C2_Witness ==
    /\ IsConcat
    /\ Len(call.task_sets) = MaxSets
    /\ SameTypes(call.task_sets)
    /\ \A k \in DOMAIN call.task_sets : Len(call.task_sets[k].x) = MaxConcatLen
    /\ ret.kind = "ok"

\* C3: concat of a list in which some task set's data type differs from the
\* first one's raises the type-mismatch error, wherever the differing task
\* set sits; the error names the offending type and the first task set's
\* type, and no task set is returned.
C3_MismatchRaises ==
    (IsConcat /\ Len(call.task_sets) > 0 /\ ~SameTypes(call.task_sets)) =>
        LET bad == {k \in DOMAIN call.task_sets :
                      call.task_sets[k].data_type
                          # call.task_sets[1].data_type}
            first == CHOOSE k \in bad : \A j \in bad : k <= j
        IN  /\ ret.kind = "raise"
            /\ ret.error = "Exception"
            /\ ret.message[2] = call.task_sets[first].data_type
            /\ ret.message[4] = call.task_sets[1].data_type
            /\ "dataset" \notin DOMAIN ret

C3_Witness ==
    /\ IsConcat
    /\ Len(call.task_sets) = MaxSets
    /\ \A k \in 1..(MaxSets - 1) : call.task_sets[k].data_type = "IMAGE_ARRAY"
    /\ call.task_sets[MaxSets].data_type = "TEXT"
    /\ ret.kind = "raise"

\* C4: get_balanced_sampler on a segmentation, object-detection or text
\* task set raises the unsupported-data-type error, for either value of log
\* and whatever the labels; it raises before any label is read and returns
\* no sampler.
C4_UnsupportedRaises ==
    (IsSampler /\ call.taskset.data_type
                    \in {"SEGMENTATION", "OBJ_DETECTION", "TEXT"}) =>
        /\ ret.kind = "raise"
        /\ ret.error = "NotImplementedError"
        /\ ~labels_read
        /\ "weights" \notin DOMAIN ret

C4_Witness ==
    /\ IsSampler
    /\ call.taskset.data_type = "TEXT"
    /\ call.log
    /\ Len(call.taskset.y) = MaxSamplerLen
    /\ ret.kind = "raise"

\* The number of samples of y with the label c.
Count(y, c) == Cardinality({i \in DOMAIN y : y[i] = c})

\* Two classes present in y have different numbers of samples.
UnequalCounts(y) ==
    \E i, j \in DOMAIN y : Count(y, y[i]) # Count(y, y[j])

\* C5: in non-log mode, on a classification task set, every sample's weight
\* is 1 / (the number of samples of its class), so samples of one class
\* have one weight, and of two classes present the one with strictly fewer
\* samples has the strictly larger weight.
C5_InverseFrequency ==
    (IsSampler /\ ~call.log /\ call.taskset.data_type = "IMAGE_ARRAY"
        /\ Len(call.taskset.y) > 0) =>
        LET y == call.taskset.y
        IN  /\ ret.kind = "ok"
            /\ DOMAIN ret.weights = DOMAIN y
            /\ \A i \in DOMAIN y :
                    FloatEq(ret.weights[i], Rat(1, Count(y, y[i])))
            /\ \A i, j \in DOMAIN y :
                    /\ y[i] = y[j] => ret.weights[i] = ret.weights[j]
                    /\ Count(y, y[i]) < Count(y, y[j]) =>
                          FloatLt(ret.weights[j], ret.weights[i])

C5_Witness ==
    /\ IsSampler
    /\ ~call.log
    /\ ret.kind = "ok"
    /\ call.taskset.y = <<0, 0, 0, 1>>
    /\ ret.weights = <<Rat(1, 3), Rat(1, 3), Rat(1, 3), Rat(1, 1)>>

\* The log-mode weights of the last call equal, sample by sample, the
\* weights 1 / count that non-log mode gives.
LogEqualsNonLog ==
    \A i \in DOMAIN call.taskset.y :
        FloatEq(ret.weights[i],
                Rat(1, Count(call.taskset.y, call.taskset.y[i])))

\* Of two classes present, the rarer has a log-mode weight >= the other's.
LogKeepsOrder ==
    \A i, j \in DOMAIN call.taskset.y :
        Count(call.taskset.y, call.taskset.y[i])
            < Count(call.taskset.y, call.taskset.y[j]) =>
                FloatGeq(ret.weights[i], ret.weights[j])

LogCase ==
    /\ IsSampler
    /\ call.log
    /\ call.taskset.data_type = "IMAGE_ARRAY"
    /\ UnequalCounts(call.taskset.y)

Contiguous(y) == \A c \in 0..SeqMax(y) : Count(y, c) > 0

\* Exactly two classes of y have two samples and every other class has one.
TwoPairsRestSingle(y) ==
    /\ Cardinality({c \in Range(y) : Count(y, c) = 2}) = 2
    /\ \A c \in Range(y) : Count(y, c) \in {1, 2}

C7_Deterministic ==
    /\ (IsSplit /\ pinned # NoCall /\ call = pinned.call) => ret = pinned.ret
    /\ np_random.pos = 0

C7_Witness ==
    /\ IsSplit
    /\ pinned # NoCall
    /\ call = pinned.call
    /\ between = <<"concat", "split_train_val">>
    /\ ret.kind = "ok"
    /\ Len(ret.val_indexes) > 0
    /\ ret.indexes # Arange(Len(ret.indexes))

\* C8: the pipeline and the data-type tag pass through unchanged: both task
\* sets split_train_val returns carry the input's, and the task set concat
\* returns carries those of the first list element, whatever pipelines the
\* later elements have.
C8_PipelineAndTagPassThrough ==
    /\ (IsSplit /\ ret.kind = "ok") =>
          /\ ret.train.trsf = call.dataset.trsf
          /\ ret.val.trsf = call.dataset.trsf
          /\ ret.train.data_type = call.dataset.data_type
          /\ ret.val.data_type = call.dataset.data_type
    /\ (IsConcat /\ ret.kind = "ok") =>
          /\ ret.dataset.trsf = call.task_sets[1].trsf
          /\ ret.dataset.data_type = call.task_sets[1].data_type

C8_Witness ==
    /\ IsConcat
    /\ ret.kind = "ok"
    /\ Len(call.task_sets) = MaxSets
    /\ call.task_sets[1].trsf = "trsf_b"
    /\ call.task_sets[MaxSets].trsf = "trsf_a"
    /\ ret.dataset.trsf = "trsf_b"

\* C9: in get_balanced_sampler, for every non-empty classification task
\* set, no per-class count is zero, so 1 / count never divides by zero,
\* whatever non-negative labels the task set has (contiguous from 0 or
\* not).
C9_NoZeroCount ==
    (IsSampler /\ call.taskset.data_type = "IMAGE_ARRAY"
        /\ Len(call.taskset.y) > 0) =>
        \A c \in DOMAIN ret.nb_per_class : ret.nb_per_class[c] # 0

\* The integer k nearest to p/q between it and 0: int(p/q).
TowardsZero(p, q) ==
    LET a == IF p < 0 THEN -p ELSE p
        m == CHOOSE m \in 0..a : m * q <= a /\ a < (m + 1) * q
    IN  IF p < 0 THEN -m ELSE m

\* The last split cut the shuffled indexes at Python's position k: the
\* validation indexes are those before it, the train indexes those from it
\* on (a negative k counts from the end; positions are clamped to 0..N).
CutAt(k) ==
    LET n == Len(ret.indexes)
        b == IF k < 0 THEN n + k ELSE k
        pos == IF b < 0 THEN 0 ELSE IF b > n THEN n ELSE b
    IN  /\ Range(ret.indexes) = 0..(n - 1)
        /\ n = Len(call.dataset.x)
        /\ ret.val_indexes = SubSeq(ret.indexes, 1, pos)
        /\ ret.train_indexes = SubSeq(ret.indexes, pos + 1, n)

SplitsAnyway ==
    /\ ret.kind = "ok"
    /\ Partition
    /\ CutAt(TowardsZero(call.val_split.num * Len(call.dataset.x),
                         call.val_split.den))
    /\ (call.val_split.kind = "rat"
            /\ call.val_split.num >= call.val_split.den) =>
          /\ ret.train_indexes = <<>>
          /\ Range(ret.val_indexes) = 0..(Len(call.dataset.x) - 1)

\* C10, as claimed: for every val_split whatsoever split_train_val raises
\* no error and its train and validation index sets are disjoint and cover
\* 0..N-1, the shuffled indexes being cut at k = int(val_split * N);
\* val_split >= 1 gives an empty train set and everything in validation.
C10_AnyValSplitSplits == IsSplit => SplitsAnyway

\* C10, amended: the same for every val_split for which val_split * N is a
\* finite number; int() raises on an infinite or NaN product.
C10_FiniteValSplitSplits ==
    (IsSplit /\ call.val_split.kind = "rat") => SplitsAnyway

C10_Witness ==
    /\ IsSplit
    /\ call.val_split = Rat(-1, 2)
    /\ Len(call.dataset.x) = MaxSplitLen
    /\ ret.kind = "ok"
    /\ Len(ret.train_indexes) > 0
    /\ Len(ret.val_indexes) > 0

====
